---- MODULE Spec2Model ----
(***************************************************************************)
(* krx62.c - hwmon driver for NZXT Kraken X42/X52/X62/X72.                 *)
(*                                                                         *)
(* The driver keeps one struct krx62_device_data per device.  The HID      *)
(* transport pushes raw reports to krx62_raw_event, which decodes status   *)
(* reports into temp_input and fan_input[]; the hwmon core pulls single    *)
(* values through krx62_read.                                              *)
(***************************************************************************)
EXTENDS Integers, Sequences, FiniteSets, TLC

\* ------------------------------------------------------------------------
\* Program constants
\* ------------------------------------------------------------------------
KRX62_RPM_INPUTS == 2

STATUS_REPORT_ID == 4

STATUS_MIN_BYTES == 16

\* errno value behind "return -EINVAL"
EINVAL == 22

\* largest value of a u8 (the element type of the report buffer)
U8_MAX == 255

\* ------------------------------------------------------------------------
\* Bounds of the model
\* ------------------------------------------------------------------------
\* number of sample payloads the transport may deliver
NumSamples == 3

\* largest channel index a caller passes to krx62_read
MaxChannel == 2

\* number of krx62_raw_event calls that may be in flight together
MaxInFlight == 2

\* number of sample payloads those calls carry
NumConcSamples == 2

\* ------------------------------------------------------------------------
\* Inputs
\* ------------------------------------------------------------------------
\* enum hwmon_sensor_types values a caller may pass
HwmonTypes == {"hwmon_chip", "hwmon_temp", "hwmon_in", "hwmon_fan", "hwmon_pwm"}

\* attribute numbers; krx62_read never looks at attr
HwmonAttrs == {"input", "label"}

Channels == 0..MaxChannel

\* report identifiers around the status report's
ReportIds == {STATUS_REPORT_ID - 1, STATUS_REPORT_ID, STATUS_REPORT_ID + 1}

\* buffer lengths: empty, one below the minimum (every field present, but
\* too short), the minimum, one above
ReportSizes == {0, STATUS_MIN_BYTES - 1, STATUS_MIN_BYTES, STATUS_MIN_BYTES + 1}

\* bytes at offsets 1..6 of sample payloads; the first is the documented
\* scenario 1E 32 0C 80 03 20
Samples ==
  << <<30, 50, 12, 128, 3, 32>>,
     <<255, 255, 255, 254, 128, 0>>,
     <<0, 0, 0, 0, 0, 0>>,
     <<1, 99, 0, 255, 255, 255>> >>

SampleBytes(i) ==
  IF i <= Len(Samples) THEN Samples[i]
  ELSE [k \in 1..6 |-> (37 * i + 59 * k) % (U8_MAX + 1)]

\* the u8 buffer of length size: offset 0 carries the report identifier,
\* offsets 1..6 the payload bytes b, the rest is zero
MkData(id, size, b) ==
  [i \in 0..(size - 1) |->
     IF i = 0 THEN id ELSE IF i \in 1..6 THEN b[i] ELSE 0]

MkReport(id, size, b) == [id |-> id, size |-> size, data |-> MkData(id, size, b)]

Reports ==
  {MkReport(id, size, SampleBytes(i)) :
     id \in ReportIds, size \in ReportSizes, i \in 1..NumSamples}

\* ------------------------------------------------------------------------
\* State
\* ------------------------------------------------------------------------
VARIABLES
  ldata,      \* struct krx62_device_data: temp_input, fan_input[]
  cpu_le,     \* TRUE when the build targets a little-endian CPU
  last,       \* the most recent completed call; for krx62_read its
              \* arguments, return value and *val
  delivered,  \* the most recent krx62_raw_event call: report and return value
  latest,     \* the most recent report that passed the check of line 109
  seen,       \* results of krx62_read per declared channel since the most
              \* recent delivery
  irq,        \* the krx62_raw_event calls of the interleaved specification:
              \* position, report, stores not yet visible
  dev         \* the hid_device and its driver binding: position in
              \* krx62_probe / krx62_remove, driver data pointer, transport
              \* and hwmon registration

vars == <<ldata, cpu_le, last, delivered, latest, seen, irq, dev>>

NoReport == [id |-> -1, size |-> -1, data |-> <<>>]

NoDelivery == [report |-> NoReport, ret |-> 0]

Calls == 1..MaxInFlight

\* a call the transport has not made yet
NotCalled == [pc |-> "pending", report |-> NoReport, todo |-> {}]

\* *val is modelled as a sequence: empty when krx62_read did not store to
\* it, <<v>> when it stored v
NoVal == <<>>

\* a channel not read yet, and the outcome of a read
NoRead == [done |-> FALSE, ret |-> 0, val |-> NoVal]

Outcome(ret, val) == [done |-> TRUE, ret |-> ret, val |-> val]

\* channels declared in krx62_info: one temp, two fans
Declared ==
  {<<"hwmon_temp", 0>>} \cup {<<"hwmon_fan", c>> : c \in 0..(KRX62_RPM_INPUTS - 1)}

\* the device after krx62_probe returned 0: driver data installed,
\* transport started and opened once, hwmon device registered
Bound ==
  [pc |-> "bound", drvdata |-> "ldata", alloc |-> "live", started |-> TRUE,
   open_count |-> 1, hwmon |-> "registered", ret |-> 0, err |-> 0,
   close_unopened |-> FALSE, stop_unstarted |-> FALSE, fault |-> "none"]

\* faulty variant: devm_kmalloc in place of devm_kzalloc: the fields keep whatever
\* the allocator left there
kmalloc_ldata ==
  [temp_input |-> -1, fan_input |-> [i \in 0..(KRX62_RPM_INPUTS - 1) |-> 4096 + i]]

\* the record devm_kzalloc returns: every field zero
kzalloc_ldata ==
  [temp_input |-> 0, fan_input |-> [i \in 0..(KRX62_RPM_INPUTS - 1) |-> 0]]

Init ==
  /\ ldata = kzalloc_ldata
  /\ cpu_le \in BOOLEAN
  /\ last = [fn |-> "none"]
  /\ delivered = NoDelivery
  /\ latest = NoReport
  /\ seen = [d \in Declared |-> NoRead]
  /\ irq = [c \in Calls |-> NotCalled]
  /\ dev = Bound

\* ------------------------------------------------------------------------
\* krx62_raw_event
\* ------------------------------------------------------------------------
\* the 16-bit load *(__be16 *)(data + off) as the CPU sees it
load16(data, off, le) ==
  IF le THEN data[off] + (U8_MAX + 1) * data[off + 1]
  ELSE (U8_MAX + 1) * data[off] + data[off + 1]

swab16(x) == (x % (U8_MAX + 1)) * (U8_MAX + 1) + (x \div (U8_MAX + 1))

\* faulty variant: le16_to_cpup where be16_to_cpup was meant
le16_to_cpup(data, off, le) ==
  IF le THEN load16(data, off, le) ELSE swab16(load16(data, off, le))

\* be16_to_cpup: byte swap on little-endian CPUs, identity on big-endian
be16_to_cpup(data, off, le) ==
  IF le THEN swab16(load16(data, off, le)) ELSE load16(data, off, le)

\* faulty variant: the identifier test dropped from the guard
Ignored_any_id(id, size) == size < STATUS_MIN_BYTES

\* faulty variant: the length test only asks for the bytes the decoder reads
Ignored_fields_present(id, size) == id # STATUS_REPORT_ID \/ size < 7

\* the guard of line 109: TRUE when the report is ignored
Ignored(id, size) == id # STATUS_REPORT_ID \/ size < STATUS_MIN_BYTES

\* faulty variant: the fractional byte scaled as tenths of a milli-degree unit
TempValue_frac10(data) == data[1] * 1000 + data[2] * 10

\* u8 operands promote to int; the largest result, 255*1000 + 255*100,
\* is far inside int and long, so the arithmetic is exact
TempValue(data) == data[1] * 1000 + data[2] * 100

Fan0Value(data, le) == be16_to_cpup(data, 3, le)

Fan1Value(data, le) == be16_to_cpup(data, 5, le)

Decoded(r, le) ==
  [temp_input |-> TempValue(r.data),
   fan_input  |-> [i \in 0..(KRX62_RPM_INPUTS - 1) |->
                     IF i = 0 THEN Fan0Value(r.data, le) ELSE Fan1Value(r.data, le)]]

\* faulty variant: an ignored report clears the record
raw_event_clear(ld, r, le) ==
  IF Ignored(r.id, r.size)
  THEN [ldata |-> [temp_input |-> 0,
                   fan_input  |-> [i \in 0..(KRX62_RPM_INPUTS - 1) |-> 0]],
        ret |-> 0]
  ELSE [ldata |-> Decoded(r, le), ret |-> 0]

\* faulty variant: an ignored report is answered with -EINVAL
raw_event_einval(ld, r, le) ==
  IF Ignored(r.id, r.size)
  THEN [ldata |-> ld, ret |-> -EINVAL]
  ELSE [ldata |-> Decoded(r, le), ret |-> 0]

\* the whole handler as a function: the record after the call and the
\* value returned
raw_event(ld, r, le) ==
  IF Ignored(r.id, r.size)
  THEN [ldata |-> ld, ret |-> 0]
  ELSE [ldata |-> Decoded(r, le), ret |-> 0]

krx62_raw_event(r) ==
  LET res == raw_event(ldata, r, cpu_le) IN
  /\ ldata' = res.ldata
  /\ last' = [fn |-> "krx62_raw_event"]
  /\ delivered' = [report |-> r, ret |-> res.ret]
  /\ latest' = IF Ignored(r.id, r.size) THEN latest ELSE r
  /\ seen' = [d \in Declared |-> NoRead]
  /\ UNCHANGED <<cpu_le, irq, dev>>

\* ------------------------------------------------------------------------
\* krx62_read
\* ------------------------------------------------------------------------
\* what a load past the end of fan_input[] may return
OutOfBounds == {0, 1, -1}

\* faulty variant: the two fan slots read crosswise
FanLoad_crossed(ld, channel) ==
  IF channel \in DOMAIN ld.fan_input
  THEN {ld.fan_input[(KRX62_RPM_INPUTS - 1) - channel]}
  ELSE OutOfBounds

\* the values the load ldata->fan_input[channel] may produce
FanLoad(ld, channel) ==
  IF channel \in DOMAIN ld.fan_input THEN {ld.fan_input[channel]} ELSE OutOfBounds

\* the possible outcomes of the call: value returned and *val
read(ld, type, channel) ==
  CASE type = "hwmon_temp" -> {Outcome(0, <<ld.temp_input>>)}
    [] type = "hwmon_fan"  -> {Outcome(0, <<v>>) : v \in FanLoad(ld, channel)}
    [] OTHER               -> {Outcome(-EINVAL, NoVal)}

\* faulty variant: reading a channel clears the record (read-and-clear)
krx62_read_clearing(type, attr, channel) ==
  \E res \in read(ldata, type, channel) :
    /\ attr \in HwmonAttrs
    /\ last' = [fn |-> "krx62_read", type |-> type, channel |-> channel,
                ret |-> res.ret, val |-> res.val]
    /\ seen' = seen
    /\ ldata' = [temp_input |-> 0, fan_input |-> [i \in 0..(KRX62_RPM_INPUTS - 1) |-> 0]]
    /\ UNCHANGED <<cpu_le, delivered, latest, irq, dev>>

krx62_read(type, attr, channel) ==
  \E res \in read(ldata, type, channel) :
    /\ attr \in HwmonAttrs
    /\ last' = [fn |-> "krx62_read", type |-> type, channel |-> channel,
                ret |-> res.ret, val |-> res.val]
    /\ seen' = IF <<type, channel>> \in Declared
               THEN [seen EXCEPT ![<<type, channel>>] = res]
               ELSE seen
    /\ UNCHANGED <<ldata, cpu_le, delivered, latest, irq, dev>>

\* ------------------------------------------------------------------------
\* krx62_read_string, krx62_is_visible
\* ------------------------------------------------------------------------
KRX62_TEMP_LABEL == "Coolant"

\* krx62_fan_label[]: two entries, indexed from 0
krx62_fan_label == [i \in 0..1 |-> IF i = 0 THEN "Fans" ELSE "Pump"]

\* what a load past the end of krx62_fan_label[] may yield: some pointer
\* that is none of the labels
WildPointer == "(bytes after krx62_fan_label)"

\* the pointers the load krx62_fan_label[channel] may produce
LabelLoad(channel) ==
  IF channel \in DOMAIN krx62_fan_label THEN {krx62_fan_label[channel]} ELSE {WildPointer}

\* the possible outcomes of the call: value returned and *str (a sequence,
\* empty when nothing was stored)
read_string(type, channel) ==
  CASE type = "hwmon_temp" -> {[ret |-> 0, str |-> <<KRX62_TEMP_LABEL>>]}
    [] type = "hwmon_fan"  -> {[ret |-> 0, str |-> <<l>>] : l \in LabelLoad(channel)}
    [] OTHER               -> {[ret |-> -EINVAL, str |-> <<>>]}

krx62_read_string(type, attr, channel) ==
  \E res \in read_string(type, channel) :
    /\ attr \in HwmonAttrs
    /\ last' = [fn |-> "krx62_read_string", type |-> type, channel |-> channel,
                ret |-> res.ret, str |-> res.str]
    /\ UNCHANGED <<ldata, cpu_le, delivered, latest, seen, irq, dev>>

\* faulty variant: owner write permission granted (0644)
is_visible_0644(type, attr, channel) == 420

\* return 0444, whatever the arguments
is_visible(type, attr, channel) == 292

krx62_is_visible(type, attr, channel) ==
  /\ last' = [fn |-> "krx62_is_visible", type |-> type, attr |-> attr,
              channel |-> channel, mode |-> is_visible(type, attr, channel)]
  /\ UNCHANGED <<ldata, cpu_le, delivered, latest, seen, irq, dev>>

\* ------------------------------------------------------------------------
\* Sequential specification: handlers run one at a time
\* ------------------------------------------------------------------------
Deliver == \E r \in Reports : krx62_raw_event(r)

Poll == \E type \in HwmonTypes, attr \in HwmonAttrs, channel \in Channels :
          krx62_read(type, attr, channel)

Next == Deliver \/ Poll

Spec == Init /\ [][Next]_vars

\* ------------------------------------------------------------------------
\* Sequential specification of every callback the driver registers: the
\* three krx62_hwmon_ops and raw_event, the deliveries taken from the
\* status-length samples
\* ------------------------------------------------------------------------
StatusLengthReports ==
  {MkReport(id, size, SampleBytes(i)) :
     id \in {STATUS_REPORT_ID - 1, STATUS_REPORT_ID},
     size \in {STATUS_MIN_BYTES - 1, STATUS_MIN_BYTES},
     i \in 1..NumConcSamples}

DeliverStatusLength == \E r \in StatusLengthReports : krx62_raw_event(r)

PollValue == \E type \in HwmonTypes, attr \in HwmonAttrs, channel \in Channels :
               krx62_read(type, attr, channel)

PollLabel == \E type \in HwmonTypes, attr \in HwmonAttrs, channel \in Channels :
               krx62_read_string(type, attr, channel)

PollVisible == \E type \in HwmonTypes, attr \in HwmonAttrs, channel \in Channels :
                 krx62_is_visible(type, attr, channel)

NextHwmon == DeliverStatusLength \/ PollValue \/ PollLabel \/ PollVisible

SpecHwmon == Init /\ [][NextHwmon]_vars

\* ------------------------------------------------------------------------
\* Decoder specification: the decoding of line 115-117 applied to every
\* value of each field, from the zeroed record and from a record that
\* already holds a decoded sample
\* ------------------------------------------------------------------------
Bytes == 0..U8_MAX

\* minimum-length status reports that differ from the first sample in one
\* field: the two temperature bytes, the two fan 0 bytes, the two fan 1
\* bytes
TempSweep(x, y) ==
  MkReport(STATUS_REPORT_ID, STATUS_MIN_BYTES,
           <<x, y, Samples[1][3], Samples[1][4], Samples[1][5], Samples[1][6]>>)

Fan0Sweep(x, y) ==
  MkReport(STATUS_REPORT_ID, STATUS_MIN_BYTES,
           <<Samples[1][1], Samples[1][2], x, y, Samples[1][5], Samples[1][6]>>)

Fan1Sweep(x, y) ==
  MkReport(STATUS_REPORT_ID, STATUS_MIN_BYTES,
           <<Samples[1][1], Samples[1][2], Samples[1][3], Samples[1][4], x, y>>)

\* the first delivery after attach: one of the samples as a minimum-length
\* status report
DeliverFirst ==
  /\ last.fn = "none"
  /\ \E i \in 1..NumSamples :
        krx62_raw_event(MkReport(STATUS_REPORT_ID, STATUS_MIN_BYTES, SampleBytes(i)))

\* a delivery from the sweeps, to the zeroed record or after a sample
DeliverSweep ==
  /\ latest.size < 0 \/ latest \in Reports
  /\ \E x \in Bytes, y \in Bytes :
        \/ krx62_raw_event(TempSweep(x, y))
        \/ krx62_raw_event(Fan0Sweep(x, y))
        \/ krx62_raw_event(Fan1Sweep(x, y))

NextDecode == DeliverFirst \/ DeliverSweep

SpecDecode == Init /\ [][NextDecode]_vars

\* ------------------------------------------------------------------------
\* Interleaved specification: krx62_raw_event runs in the transport's
\* interrupt context, krx62_read in a monitoring task; nothing orders the
\* stores of lines 115-117 with each other, with the loads of krx62_read or
\* with the stores of another call ("FIXME missing locking").  The three
\* plain stores race with the loads, so they may become visible in any
\* order.
\* ------------------------------------------------------------------------
ConcReports ==
  {MkReport(id, STATUS_MIN_BYTES, SampleBytes(i)) :
     id \in {STATUS_REPORT_ID - 1, STATUS_REPORT_ID}, i \in 1..NumConcSamples}

Fields == {"temp_input", "fan_input0", "fan_input1"}

\* the record after the store to field f of the decoding of report r
Store(ld, f, r, le) ==
  CASE f = "temp_input" -> [ld EXCEPT !.temp_input = TempValue(r.data)]
    [] f = "fan_input0" -> [ld EXCEPT !.fan_input[0] = Fan0Value(r.data, le)]
    [] f = "fan_input1" -> [ld EXCEPT !.fan_input[1] = Fan1Value(r.data, le)]

\* the transport calls krx62_raw_event(hdev, report, data, size)
IrqEnter(c, r) ==
  /\ irq[c].pc = "pending"
  /\ irq' = [irq EXCEPT ![c] = [pc |-> "L109", report |-> r, todo |-> {}]]
  /\ UNCHANGED <<ldata, cpu_le, last, delivered, latest, seen, dev>>

\* line 109-110: an ignored report returns 0 at once
IrqIgnore(c) ==
  /\ irq[c].pc = "L109"
  /\ Ignored(irq[c].report.id, irq[c].report.size)
  /\ irq' = [irq EXCEPT ![c].pc = "returned"]
  /\ last' = [fn |-> "krx62_raw_event"]
  /\ delivered' = [report |-> irq[c].report, ret |-> 0]
  /\ UNCHANGED <<ldata, cpu_le, latest, seen, dev>>

\* line 109, 112: the report passes the check
IrqAccept(c) ==
  /\ irq[c].pc = "L109"
  /\ ~Ignored(irq[c].report.id, irq[c].report.size)
  /\ irq' = [irq EXCEPT ![c].pc = "L115", ![c].todo = Fields]
  /\ UNCHANGED <<ldata, cpu_le, last, delivered, latest, seen, dev>>

\* line 115-117: one of the three stores becomes visible
IrqStore(c, f) ==
  /\ irq[c].pc = "L115"
  /\ f \in irq[c].todo
  /\ ldata' = Store(ldata, f, irq[c].report, cpu_le)
  /\ irq' = [irq EXCEPT ![c].todo = @ \ {f}]
  /\ UNCHANGED <<cpu_le, last, delivered, latest, seen, dev>>

\* line 118: return 0 after the three stores
IrqReturn(c) ==
  /\ irq[c].pc = "L115"
  /\ irq[c].todo = {}
  /\ irq' = [irq EXCEPT ![c].pc = "returned"]
  /\ last' = [fn |-> "krx62_raw_event"]
  /\ delivered' = [report |-> irq[c].report, ret |-> 0]
  /\ latest' = irq[c].report
  /\ UNCHANGED <<ldata, cpu_le, seen, dev>>

\* the monitoring task reads each declared channel once, in any order
PollOnce(d) ==
  /\ ~seen[d].done
  /\ \E attr \in HwmonAttrs : krx62_read(d[1], attr, d[2])

NextConc ==
  \/ \E c \in Calls, r \in ConcReports : IrqEnter(c, r)
  \/ \E c \in Calls : IrqIgnore(c) \/ IrqAccept(c) \/ IrqReturn(c)
  \/ \E c \in Calls, f \in Fields : IrqStore(c, f)
  \/ \E d \in Declared : PollOnce(d)

SpecConc == Init /\ [][NextConc]_vars

\* ------------------------------------------------------------------------
\* Lifecycle specification: krx62_probe and krx62_remove statement by
\* statement, with the deliveries the transport makes while it is started
\* and the reads the hwmon core makes while the hwmon device is registered.
\* The driver core releases the devm_ resources after a failed probe and
\* after remove, in reverse order of their acquisition.
\* ------------------------------------------------------------------------
ENOMEM == 12

\* the non-zero values hid_parse, hid_hw_start, hid_hw_open and
\* PTR_ERR(hwmon_dev) may yield
ErrCodes == {-EINVAL, -ENOMEM}

\* the device before krx62_probe runs
Unbound ==
  [Bound EXCEPT !.pc = "L137", !.drvdata = "NULL", !.alloc = "none",
                !.started = FALSE, !.open_count = 0, !.hwmon = "none"]

\* no struct krx62_device_data exists yet
Unallocated ==
  [temp_input |-> -1, fan_input |-> [i \in 0..(KRX62_RPM_INPUTS - 1) |-> -1]]

InitLife ==
  /\ ldata = Unallocated
  /\ cpu_le \in BOOLEAN
  /\ last = [fn |-> "none"]
  /\ delivered = NoDelivery
  /\ latest = NoReport
  /\ seen = [d \in Declared |-> NoRead]
  /\ irq = [c \in Calls |-> NotCalled]
  /\ dev = Unbound

\* hid_hw_close(hdev): one open reference dropped; close_unopened records
\* a call made while the device was not open
hid_hw_close(d) ==
  [d EXCEPT !.close_unopened = @ \/ d.open_count <= 0, !.open_count = @ - 1]

\* hid_hw_stop(hdev): the transport stops delivering; stop_unstarted
\* records a call made while the device was not started
hid_hw_stop(d) ==
  [d EXCEPT !.stop_unstarted = @ \/ ~d.started, !.started = FALSE]

\* krx62_probe returns ret
ProbeReturn(d, ret) == [d EXCEPT !.pc = IF ret = 0 THEN "bound" ELSE "failed", !.ret = ret]

\* line 137-139: devm_kzalloc
ProbeAlloc ==
  /\ dev.pc = "L137"
  /\ \/ /\ ldata' = kzalloc_ldata
        /\ dev' = [dev EXCEPT !.pc = "L146", !.alloc = "live"]
        /\ last' = last
     \/ /\ ldata' = ldata
        /\ dev' = ProbeReturn([dev EXCEPT !.err = -ENOMEM], -ENOMEM)
        /\ last' = [fn |-> "krx62_probe"]
  /\ UNCHANGED <<cpu_le, delivered, latest, seen, irq>>

\* faulty variant: hid_set_drvdata left out
ProbeSetDrvdata_missing ==
  /\ dev.pc = "L146"
  /\ dev' = [dev EXCEPT !.pc = "L148"]
  /\ UNCHANGED <<ldata, cpu_le, last, delivered, latest, seen, irq>>

\* line 145-146: hid_set_drvdata(hdev, ldata)
ProbeSetDrvdata ==
  /\ dev.pc = "L146"
  /\ dev' = [dev EXCEPT !.pc = "L148", !.drvdata = "ldata"]
  /\ UNCHANGED <<ldata, cpu_le, last, delivered, latest, seen, irq>>

\* line 148-152: hid_parse; on failure return ret at once
ProbeParse ==
  /\ dev.pc = "L148"
  /\ \/ /\ dev' = [dev EXCEPT !.pc = "L156"]
        /\ last' = last
     \/ \E e \in ErrCodes :
          /\ dev' = ProbeReturn([dev EXCEPT !.err = e], e)
          /\ last' = [fn |-> "krx62_probe"]
  /\ UNCHANGED <<ldata, cpu_le, delivered, latest, seen, irq>>

\* line 156-160: hid_hw_start; on failure goto rec_stop_hid
ProbeStart ==
  /\ dev.pc = "L156"
  /\ \/ dev' = [dev EXCEPT !.pc = "L162", !.started = TRUE]
     \/ \E e \in ErrCodes :
          dev' = [dev EXCEPT !.pc = "rec_stop_hid", !.err = e, !.ret = e]
  /\ UNCHANGED <<ldata, cpu_le, last, delivered, latest, seen, irq>>

\* line 162-166: hid_hw_open; on failure goto rec_close_hid
ProbeOpen ==
  /\ dev.pc = "L162"
  /\ \/ dev' = [dev EXCEPT !.pc = "L168", !.open_count = @ + 1]
     \/ \E e \in ErrCodes :
          dev' = [dev EXCEPT !.pc = "rec_close_hid", !.err = e, !.ret = e]
  /\ UNCHANGED <<ldata, cpu_le, last, delivered, latest, seen, irq>>

\* line 168-179: devm_hwmon_device_register_with_info; on failure goto
\* rec_close_hid, otherwise return 0
ProbeRegister ==
  /\ dev.pc = "L168"
  /\ \/ /\ dev' = ProbeReturn([dev EXCEPT !.hwmon = "registered"], 0)
        /\ last' = [fn |-> "krx62_probe"]
     \/ \E e \in ErrCodes :
          /\ dev' = [dev EXCEPT !.pc = "rec_close_hid", !.err = e, !.ret = e]
          /\ last' = last
  /\ UNCHANGED <<ldata, cpu_le, delivered, latest, seen, irq>>

\* line 181-182: rec_close_hid: hid_hw_close, then fall through
ProbeRecClose ==
  /\ dev.pc = "rec_close_hid"
  /\ dev' = [hid_hw_close(dev) EXCEPT !.pc = "rec_stop_hid"]
  /\ UNCHANGED <<ldata, cpu_le, last, delivered, latest, seen, irq>>

\* line 183-185: rec_stop_hid: hid_hw_stop, return ret
ProbeRecStop ==
  /\ dev.pc = "rec_stop_hid"
  /\ dev' = ProbeReturn(hid_hw_stop(dev), dev.ret)
  /\ last' = [fn |-> "krx62_probe"]
  /\ UNCHANGED <<ldata, cpu_le, delivered, latest, seen, irq>>

\* line 190: krx62_remove: hid_hw_close
RemoveClose ==
  /\ dev.pc = "bound"
  /\ dev' = [hid_hw_close(dev) EXCEPT !.pc = "L191"]
  /\ UNCHANGED <<ldata, cpu_le, last, delivered, latest, seen, irq>>

\* faulty variant: krx62_remove returns without hid_hw_stop
RemoveStop_missing ==
  /\ dev.pc = "L191"
  /\ dev' = [dev EXCEPT !.pc = "removed"]
  /\ last' = [fn |-> "krx62_remove"]
  /\ UNCHANGED <<ldata, cpu_le, delivered, latest, seen, irq>>

\* line 191-192: krx62_remove: hid_hw_stop, return
RemoveStop ==
  /\ dev.pc = "L191"
  /\ dev' = [hid_hw_stop(dev) EXCEPT !.pc = "removed"]
  /\ last' = [fn |-> "krx62_remove"]
  /\ UNCHANGED <<ldata, cpu_le, delivered, latest, seen, irq>>

\* devm_hwmon_device_register_with_info: the driver core unregisters the
\* hwmon device once probe has failed or remove has returned
DevresUnregister ==
  /\ dev.pc \in {"failed", "removed"}
  /\ dev.hwmon = "registered"
  /\ dev' = [dev EXCEPT !.hwmon = "unregistered"]
  /\ UNCHANGED <<ldata, cpu_le, last, delivered, latest, seen, irq>>

\* devm_kzalloc: the driver core frees the record after the resources
\* acquired later have been released
DevresFree ==
  /\ dev.pc \in {"failed", "removed"}
  /\ dev.hwmon # "registered"
  /\ dev.alloc = "live"
  /\ dev' = [dev EXCEPT !.alloc = "freed"]
  /\ UNCHANGED <<ldata, cpu_le, last, delivered, latest, seen, irq>>

\* the transport delivers a report while it is started; past the check of
\* line 109 the handler dereferences hid_get_drvdata(hdev), a fault when the
\* pointer is NULL or the record freed
LifeDeliver(r) ==
  /\ dev.started
  /\ IF Ignored(r.id, r.size) \/ (dev.drvdata = "ldata" /\ dev.alloc = "live")
     THEN krx62_raw_event(r)
     ELSE /\ dev' = [dev EXCEPT !.fault = IF dev.drvdata = "NULL" THEN "event_null"
                                                                 ELSE "event_freed"]
          /\ UNCHANGED <<ldata, cpu_le, last, delivered, latest, seen, irq>>

\* the hwmon core reads a declared channel while the hwmon device is
\* registered; its driver data is the ldata pointer given at registration
LifeRead(d) ==
  /\ dev.hwmon = "registered"
  /\ IF dev.alloc = "live"
     THEN \E attr \in HwmonAttrs : krx62_read(d[1], attr, d[2])
     ELSE /\ dev' = [dev EXCEPT !.fault = "read_freed"]
          /\ UNCHANGED <<ldata, cpu_le, last, delivered, latest, seen, irq>>

NextLife ==
  \/ ProbeAlloc \/ ProbeSetDrvdata \/ ProbeParse \/ ProbeStart \/ ProbeOpen
  \/ ProbeRegister \/ ProbeRecClose \/ ProbeRecStop
  \/ RemoveClose \/ RemoveStop
  \/ DevresUnregister \/ DevresFree
  \/ \E r \in StatusLengthReports : LifeDeliver(r)
  \/ \E d \in Declared : LifeRead(d)

SpecLife == InitLife /\ [][NextLife]_vars

\* ------------------------------------------------------------------------
\* Properties
\* ------------------------------------------------------------------------
\* what the documentation says of a report, independent of the code above
IsStatusReport(r) == r.id = 4 /\ r.size >= 16

big_endian_u16(data, off) == data[off] * 256 + data[off + 1]

ExpectedTemp(r) == r.data[1] * 1000 + r.data[2] * 100

ExpectedFan(r, i) == big_endian_u16(r.data, 3 + 2 * i)

\* the value the documentation promises on a declared channel
ExpectedOn(r, d) == IF d[1] = "hwmon_temp" THEN ExpectedTemp(r) ELSE ExpectedFan(r, d[2])

Reflects(ld, r) ==
  /\ ld.temp_input = ExpectedTemp(r)
  /\ ld.fan_input[0] = ExpectedFan(r, 0)
  /\ ld.fan_input[1] = ExpectedFan(r, 1)

AllZero(ld) == ld.temp_input = 0 /\ ld.fan_input[0] = 0 /\ ld.fan_input[1] = 0

\* C1 (as stated): a reader that reads the temperature, fan 0 and fan 1
\* channels while reports are being decoded obtains the three values of
\* one single report handed to krx62_raw_event, or the all-zero initial
\* values, never a mixture.
TripleOf(r) == [d \in Declared |-> Outcome(0, <<ExpectedOn(r, d)>>)]

C1_NoMixedTriple ==
  (\A d \in Declared : seen[d].done) =>
    \/ seen = [d \in Declared |-> Outcome(0, <<0>>)]
    \/ \E c \in Calls :
         /\ irq[c].pc # "pending"
         /\ IsStatusReport(irq[c].report)
         /\ seen = TripleOf(irq[c].report)

\* C2: a krx62_raw_event call whose report identifier is not 4 leaves
\* temp_input, fan_input[0] and fan_input[1] as they were, whatever the
\* length and content of the buffer.
C2_OtherIdLeavesState ==
  [][(last'.fn = "krx62_raw_event" /\ delivered'.report.id # 4) => ldata' = ldata]_vars

\* C2 case: a report with another identifier, long enough to be decoded and
\* carrying other values than the record holds, has been delivered to a
\* record that holds a decoded report.
C2_Witness ==
  /\ last.fn = "krx62_raw_event"
  /\ delivered.report.id # 4
  /\ delivered.report.size >= 16
  /\ latest.size >= 0
  /\ ~AllZero(ldata)
  /\ ~Reflects(ldata, delivered.report)

\* C3: a krx62_raw_event call with a buffer shorter than 16 bytes leaves
\* temp_input, fan_input[0] and fan_input[1] as they were, whatever the
\* report identifier, 4 included.
C3_ShortLeavesState ==
  [][(last'.fn = "krx62_raw_event" /\ delivered'.report.size < 16) => ldata' = ldata]_vars

\* C3 case: a 15-byte buffer with identifier 4, carrying other values than
\* the record holds, has been delivered to a record that holds a decoded
\* report.
C3_Witness ==
  /\ last.fn = "krx62_raw_event"
  /\ delivered.report.id = 4
  /\ delivered.report.size = 15
  /\ latest.size >= 0
  /\ ~AllZero(ldata)
  /\ ~Reflects(ldata, delivered.report)

\* C4: after krx62_raw_event of a valid report (identifier 4, at least 16
\* bytes) temp_input equals byte[1]*1000 + byte[2]*100, for every value
\* 0..255 of both bytes.
C4_TempDecoded ==
  (last.fn = "krx62_raw_event" /\ IsStatusReport(delivered.report))
    => ldata.temp_input = delivered.report.data[1] * 1000 + delivered.report.data[2] * 100

\* C4 case: both temperature bytes at 255 were decoded: 280500, beyond any
\* 16-bit field.
C4_Witness ==
  /\ last.fn = "krx62_raw_event"
  /\ IsStatusReport(delivered.report)
  /\ delivered.report.data[1] = 255
  /\ delivered.report.data[2] = 255
  /\ ldata.temp_input = 280500

\* C5: after krx62_raw_event of a valid report fan_input[0] equals
\* byte[3]*256 + byte[4] and fan_input[1] equals byte[5]*256 + byte[6],
\* both within 0..65535.
C5_FansDecoded ==
  (last.fn = "krx62_raw_event" /\ IsStatusReport(delivered.report))
    => /\ ldata.fan_input[0] = delivered.report.data[3] * 256 + delivered.report.data[4]
       /\ ldata.fan_input[1] = delivered.report.data[5] * 256 + delivered.report.data[6]
       /\ ldata.fan_input[0] \in 0..65535
       /\ ldata.fan_input[1] \in 0..65535

\* C5 case: the documented bytes 0C 80 03 20 were decoded on a
\* little-endian CPU, giving 3200 and 800.
C5_Witness ==
  /\ cpu_le
  /\ last.fn = "krx62_raw_event"
  /\ IsStatusReport(delivered.report)
  /\ delivered.report.data[3] = 12 /\ delivered.report.data[4] = 128
  /\ delivered.report.data[5] = 3 /\ delivered.report.data[6] = 32
  /\ ldata.fan_input[0] = 3200
  /\ ldata.fan_input[1] = 800

\* C6 (as stated): krx62_read on an out-of-range channel (a sensor kind
\* other than temperature or fan, or a fan index outside 0..1) returns
\* -EINVAL, stores no value and leaves the record unchanged.
OutOfRange(type, channel) ==
  \/ type \notin {"hwmon_temp", "hwmon_fan"}
  \/ type = "hwmon_fan" /\ channel \notin 0..1

C6_OutOfRangeFails ==
  [][(last'.fn = "krx62_read" /\ OutOfRange(last'.type, last'.channel))
       => (last'.ret = -22 /\ last'.val = NoVal /\ ldata' = ldata)]_vars

\* C7: after any series of deliveries the record holds the decoding of the
\* most recent report that was valid; ignored deliveries after it neither
\* alter nor reset it.
C7_StateIsLatestValid ==
  latest.size >= 0 => Reflects(ldata, latest)

\* C7 case: a valid report carrying non-zero values was decoded and the
\* most recent delivery since is an ignored one (identifier 5) carrying
\* other values in every field.
C7_Witness ==
  /\ latest.size >= 0
  /\ ~AllZero(ldata)
  /\ last.fn = "krx62_raw_event"
  /\ delivered.report.id = 5
  /\ delivered.report.size = 17
  /\ ExpectedTemp(latest) # ExpectedTemp(delivered.report)
  /\ ExpectedFan(latest, 0) # ExpectedFan(delivered.report, 0)
  /\ ExpectedFan(latest, 1) # ExpectedFan(delivered.report, 1)

\* C8: when the most recent delivery was a valid report, every krx62_read
\* of a declared channel made since returns 0 and the value that report
\* encodes for that channel.
C8_RoundTrip ==
  IsStatusReport(delivered.report) =>
    \A d \in Declared :
      seen[d].done =>
        seen[d] = Outcome(0, <<ExpectedOn(delivered.report, d)>>)

\* C8 case: a valid report with three different values was decoded and all
\* three channels have been read since.
C8_Witness ==
  /\ IsStatusReport(delivered.report)
  /\ \A d \in Declared : seen[d].done
  /\ ExpectedFan(delivered.report, 0) # ExpectedFan(delivered.report, 1)
  /\ ExpectedTemp(delivered.report) # ExpectedFan(delivered.report, 0)
  /\ last.fn = "krx62_read"

\* C9: as long as no valid report has been decoded, krx62_read of a
\* declared channel returns 0 and stores 0.
C9_ZeroBeforeFirstReport ==
  (latest.size < 0 /\ last.fn = "krx62_read" /\ <<last.type, last.channel>> \in Declared)
    => (last.ret = 0 /\ last.val = <<0>>)

\* C9 case: only an ignored report has been delivered, and all three
\* declared channels have been read after it.
C9_Witness ==
  /\ latest.size < 0
  /\ delivered.report.id = 4
  /\ delivered.report.size = 15
  /\ \A d \in Declared : seen[d] = Outcome(0, <<0>>)

\* C10: krx62_raw_event returns 0 for every delivery, ignored or decoded.
C10_RawEventReturnsZero ==
  delivered.report.size >= 0 => delivered.ret = 0

\* C10 case: the most recent call was a delivery that was ignored, with
\* content that a decode would have stored.
C10_Witness ==
  /\ last.fn = "krx62_raw_event"
  /\ ~IsStatusReport(delivered.report)
  /\ delivered.report.size = 15
  /\ delivered.ret = 0
  /\ ~AllZero(ldata)

\* C11 (as stated): krx62_read_string returns 0 and "Coolant" for the
\* temperature channel, "Fans" for fan 0, "Pump" for fan 1, and returns
\* -EINVAL, storing nothing, for a channel outside the table (another sensor
\* kind, or a fan index outside 0..1).
ExpectedLabel(d) ==
  IF d[1] = "hwmon_temp" THEN "Coolant" ELSE IF d[2] = 0 THEN "Fans" ELSE "Pump"

C11_LabelsOrEinval ==
  last.fn = "krx62_read_string" =>
    /\ <<last.type, last.channel>> \in Declared
         => (last.ret = 0 /\ last.str = <<ExpectedLabel(<<last.type, last.channel>>)>>)
    /\ OutOfRange(last.type, last.channel)
         => (last.ret = -22 /\ last.str = <<>>)

\* C12: krx62_is_visible grants no write permission bit (0200, 0020, 0002)
\* for any sensor kind, attribute and channel, and no call of is_visible,
\* read or read_string changes temp_input or fan_input[].
WriteBits(mode) == {b \in {128, 16, 2} : (mode \div b) % 2 = 1}

HwmonOps == {"krx62_is_visible", "krx62_read", "krx62_read_string"}

C12_ReadOnly ==
  [][/\ last'.fn = "krx62_is_visible" => WriteBits(last'.mode) = {}
     /\ last'.fn \in HwmonOps => ldata' = ldata]_vars

\* C12 case: is_visible was asked about a declared fan channel while the
\* record holds a decoded report, and answered with read permission only.
C12_Witness ==
  /\ last.fn = "krx62_is_visible"
  /\ last.type = "hwmon_fan"
  /\ last.channel = 1
  /\ last.mode = 292
  /\ latest.size >= 0
  /\ ~AllZero(ldata)

\* C13: temp_input and fan_input[] change only in a krx62_raw_event call
\* whose report passed the identifier-and-length check; krx62_read and
\* krx62_read_string calls, successful or failing, leave them unchanged.
C13_SingleWriter ==
  [][/\ ldata' # ldata
          => (last'.fn = "krx62_raw_event" /\ IsStatusReport(delivered'.report))
     /\ last'.fn \in {"krx62_read", "krx62_read_string"} => ldata' = ldata]_vars

\* C13 case: a failing krx62_read (unsupported sensor kind) ran on a record
\* that holds a decoded non-zero report, after an ignored delivery.
C13_Witness ==
  /\ last.fn = "krx62_read"
  /\ last.ret = -22
  /\ latest.size >= 0
  /\ ~AllZero(ldata)
  /\ ~IsStatusReport(delivered.report)

\* C14 (as stated): when krx62_raw_event calls for valid reports interleave,
\* the record after all of them have returned holds the full decoding of one
\* of the reports, never some fields of one and some of another.
C14_FinalIsOneReport ==
  (\A c \in Calls : irq[c].pc = "returned" /\ IsStatusReport(irq[c].report))
    => \E c \in Calls : Reflects(ldata, irq[c].report)

\* C15 (as stated): on every failure path of krx62_probe hid_hw_close is
\* called only if hid_hw_open had succeeded and hid_hw_stop only if
\* hid_hw_start had succeeded, the failing step's error code is returned,
\* and the device ends neither started nor open.
C15_ProbeUnwinds ==
  /\ ~dev.close_unopened
  /\ ~dev.stop_unstarted
  /\ dev.pc = "failed"
       => (dev.ret = dev.err /\ dev.ret < 0 /\ ~dev.started /\ dev.open_count = 0)

\* C16: the driver data pointer is installed, pointing to the zeroed
\* record, before the transport is started: whenever the transport may
\* deliver, krx62_raw_event finds the record, which holds zeros until the
\* first valid report; no delivery ever dereferences a NULL pointer.
C16_DrvdataBeforeStart ==
  /\ dev.started => (dev.drvdata = "ldata" /\ dev.alloc = "live")
  /\ (dev.started /\ latest.size < 0) => AllZero(ldata)
  /\ dev.fault # "event_null"

\* C16 case: a valid report arrived after hid_hw_start and was decoded into
\* the record during a probe that then failed at hwmon registration.
C16_Witness ==
  /\ dev.pc = "rec_close_hid"
  /\ dev.open_count = 1
  /\ latest.size >= 0
  /\ Reflects(ldata, latest)
  /\ ~AllZero(ldata)

\* C17: the record is never used after it is freed: once it is freed the
\* transport is stopped and the hwmon device is no longer registered, no
\* delivery and no read ever touched a freed record, and a read made after
\* krx62_remove returned, while the hwmon device is still registered,
\* returns 0 and the value of the last snapshot.
SnapshotOn(d) == IF latest.size >= 0 THEN ExpectedOn(latest, d) ELSE 0

C17_NoUseAfterFree ==
  /\ dev.alloc = "freed" => (~dev.started /\ dev.hwmon # "registered")
  /\ dev.fault \notin {"event_freed", "read_freed"}
  /\ (dev.pc = "removed" /\ last.fn = "krx62_read")
       => (last.ret = 0 /\ last.val = <<SnapshotOn(<<last.type, last.channel>>)>>)

\* C17 case: after krx62_remove returned and before the hwmon device was
\* unregistered a read returned the pump speed of the last report; then the
\* hwmon device was unregistered and the record freed.
C17_Witness ==
  /\ dev.pc = "removed"
  /\ dev.alloc = "freed"
  /\ last.fn = "krx62_read"
  /\ last.type = "hwmon_fan"
  /\ last.channel = 1
  /\ latest.size >= 0
  /\ last.val = <<ExpectedFan(latest, 1)>>
  /\ ExpectedFan(latest, 1) # 0

====
